---- MODULE Spec2Model ----
(***************************************************************************)
(* Model of the Parquet binding layer cudf/_libxx/parquet.pyx:             *)
(* generate_pandas_metadata, read_parquet, write_parquet and               *)
(* merge_filemetadata, together with the parts of the native library and   *)
(* of the Table class they call.                                           *)
(*                                                                         *)
(* Python values are modelled as follows.  None is the string "None"; the  *)
(* three index policies True / False / None are the strings "True",        *)
(* "False" and "None".  A str that is only compared for equality is a TLA+ *)
(* string; the statistics argument, which is upper-cased, is a sequence of *)
(* one-character strings.  Python objects of several classes (index        *)
(* descriptors, return values) are records with a "kind" field.            *)
(***************************************************************************)
EXTENDS Integers, Sequences, FiniteSets, TLC

VARIABLES table, filemetadata_list, fs, last, gil, pc, call, frame, result

vars == <<table, filemetadata_list, fs, last, gil, pc, call, frame, result>>

None == "None"

(***************************************************************************)
(* Bounds of the model.                                                    *)
(***************************************************************************)
MaxCols == 2

MaxLevels == 2

MaxBlobs == 2

MaxBlobLen == 2

(***************************************************************************)
(* Generic helpers.                                                        *)
(***************************************************************************)
Range(s) == {s[k] : k \in DOMAIN s}

SeqsUpTo(S, n) == UNION {[1..m -> S] : m \in 0..n}

RECURSIVE FlattenSeqs(_)
FlattenSeqs(ss) == IF ss = <<>> THEN <<>> ELSE Head(ss) \o FlattenSeqs(Tail(ss))

(***************************************************************************)
(* Tables.  A table has an ordered collection of named data columns and an *)
(* index: a RangeIndex, a materialized single index (GenericIndex) or a    *)
(* MultiIndex of several levels.  Every level has a name (possibly None)   *)
(* and a dtype.  Column names are taken in a fixed order, one per          *)
(* position; tables differing only by a renaming behave alike.             *)
(***************************************************************************)
ColName == <<"a", "b", "c", "d">>

LevelName == <<"i", "j", "k", "l">>

Dtypes == {"INT32", "CATEGORY"}

DataColumns ==
    { [k \in 1..n |-> [name |-> ColName[k], dtype |-> d[k]]] :
        n \in 1..MaxCols, d \in [1..MaxCols -> Dtypes] }

RangeIndexes ==
    { [kind |-> "RangeIndex", levels |-> <<[name |-> n, dtype |-> "INT64"]>>,
       start |-> 0, stop |-> 2] : n \in {None, LevelName[1]} }

GenericIndexes ==
    { [kind |-> "GenericIndex", levels |-> <<[name |-> n, dtype |-> d]>>,
       start |-> 0, stop |-> 0] : n \in {None, LevelName[1]}, d \in Dtypes }

MultiIndexes ==
    { [kind |-> "MultiIndex",
       levels |-> [k \in 1..m |->
                     [name |-> IF named[k] THEN LevelName[k] ELSE None,
                      dtype |-> "INT32"]],
       start |-> 0, stop |-> 0] :
        m \in 2..MaxLevels, named \in [1..MaxLevels -> BOOLEAN] }

Indexes == RangeIndexes \cup GenericIndexes \cup MultiIndexes

Tables == { [data |-> c, index |-> i] : c \in DataColumns, i \in Indexes }

\* is_categorical_dtype
is_categorical_dtype(col) == col.dtype = "CATEGORY"

\* table._column_names
column_names_of(t) == [k \in DOMAIN t.data |-> t.data[k].name]

\* table._index.names
index_names(t) == [k \in DOMAIN t.index.levels |-> t.index.levels[k].name]

\* isinstance(table._index, cudf.core.multiindex.MultiIndex)
IsMultiIndex(t) == t.index.kind = "MultiIndex"

(***************************************************************************)
(* Table.data_view() and Table.view(): the physical columns handed to the  *)
(* encoder.  A physical column is identified by where it comes from.       *)
(* view() holds the index columns, then the data columns; data_view() the  *)
(* data columns only.                                                      *)
(***************************************************************************)
data_view(t) == [k \in DOMAIN t.data |-> [part |-> "data", pos |-> k]]

view(t) ==
    [k \in DOMAIN t.index.levels |-> [part |-> "index", pos |-> k]] \o data_view(t)

\* The name the table gives the physical column c.
PhysicalName(t, c) ==
    IF c.part = "index" THEN t.index.levels[c.pos].name ELSE t.data[c.pos].name

(***************************************************************************)
(* generate_pandas_metadata.                                               *)
(***************************************************************************)
\* np_to_pa_dtype: the Arrow type of a numpy dtype.
np_to_pa_dtype(dtype) ==
    CASE dtype = "INT32" -> "int32"
      [] dtype = "INT64" -> "int64"
      [] OTHER -> "dictionary"

\* An entry of index_descriptors: a plain column-name reference (a str) ...
NameRef(name) ==
    [kind |-> "name", name |-> name, start |-> 0, stop |-> 0, step |-> 0]

\* ... or a {"kind": "range", ...} record (a dict).
RangeDescr(index) ==
    [kind |-> "range", name |-> index.levels[1].name,
     start |-> index.start, stop |-> index.stop, step |-> 1]

\* table.index.get_level_values(name) for a MultiIndex, table.index otherwise.
LevelOf(t, name) ==
    IF IsMultiIndex(t)
    THEN LET k == CHOOSE k \in DOMAIN t.index.levels :
                    /\ t.index.levels[k].name = name
                    /\ \A j \in 1..(k - 1) : t.index.levels[j].name # name
         IN  [kind |-> "GenericIndex", name |-> name,
              dtype |-> t.index.levels[k].dtype]
    ELSE [kind |-> t.index.kind, name |-> t.index.levels[1].name,
          dtype |-> t.index.levels[1].dtype]

\* The loop over the data columns: names, types, and whether it raised.
RECURSIVE ColumnsLoop(_, _, _)
ColumnsLoop(t, k, acc) ==
    IF k > Len(t.data) \/ acc.raised THEN acc
    ELSE LET col == t.data[k]
             named == [acc EXCEPT !.col_names = Append(@, col.name)]
         IN  IF is_categorical_dtype(col)
             THEN [named EXCEPT !.raised = TRUE]
             ELSE ColumnsLoop(t, k + 1,
                      [named EXCEPT !.types = Append(@, np_to_pa_dtype(col.dtype))])

\* The loop over table._index.names.
RECURSIVE IndexesLoop(_, _, _)
IndexesLoop(t, k, acc) ==
    IF k > Len(t.index.levels) \/ acc.raised THEN acc
    ELSE LET name == index_names(t)[k] IN
         IF name = None
         THEN IndexesLoop(t, k + 1, [acc EXCEPT !.col_names = Append(@, name)])
         ELSE LET idx == LevelOf(t, name) IN
              IF idx.kind = "RangeIndex"
              THEN IndexesLoop(t, k + 1,
                       [acc EXCEPT !.index_descriptors =
                                       Append(@, RangeDescr(t.index))])
              ELSE LET named == [acc EXCEPT !.col_names = Append(@, name)] IN
                   IF is_categorical_dtype(idx)
                   THEN [named EXCEPT !.raised = TRUE]
                   ELSE IndexesLoop(t, k + 1,
                            [named EXCEPT
                               !.types = Append(@, np_to_pa_dtype(idx.dtype)),
                               !.index_levels = Append(@, idx),
                               !.index_descriptors = Append(@, NameRef(name))])

\* Faulty variant of PandasLists: the index loop runs whatever the policy.
PandasListsAlways(t, index) ==
    IndexesLoop(t, 1,
        ColumnsLoop(t, 1, [raised |-> FALSE, col_names |-> <<>>, types |-> <<>>,
                           index_levels |-> <<>>, index_descriptors |-> <<>>]))

\* What generate_pandas_metadata has collected when it calls
\* construct_metadata, or when it raises.
PandasLists(t, index) ==
    LET start == [raised |-> FALSE, col_names |-> <<>>, types |-> <<>>,
                  index_levels |-> <<>>, index_descriptors |-> <<>>]
        cols == ColumnsLoop(t, 1, start)
    IN  IF index # "False" THEN IndexesLoop(t, 1, cols) ELSE cols

\* The "pandas" JSON: pa.pandas_compat.construct_metadata keeps the index
\* descriptors as 'index_columns' unless preserve_index is False.
construct_metadata(lists, index) ==
    [present |-> TRUE,
     index_columns |-> IF index = "False" THEN <<>> ELSE lists.index_descriptors]

NoPandas == [present |-> FALSE, index_columns |-> <<>>]

\* Faulty variant of generate_pandas_metadata: no dtype is rejected.
generate_pandas_metadata_unchecked(t, index) ==
    [raised |-> FALSE,
     json_str |-> construct_metadata(PandasLists(t, index), index)]

generate_pandas_metadata(t, index) ==
    LET lists == PandasLists(t, index)
    IN  [raised |-> lists.raised,
         json_str |-> IF lists.raised THEN NoPandas
                      ELSE construct_metadata(lists, index)]

(***************************************************************************)
(* Python objects returned to the caller.                                  *)
(***************************************************************************)
PyNone == [kind |-> "None", shape |-> <<>>, data |-> <<>>,
           index |-> <<>>, columns |-> <<>>]

\* BufferArrayFromVector.__getbuffer__ under np.asarray: a two-dimensional
\* uint8 array of one row holding the vector's bytes.
BufferArrayFromVector(vec) ==
    [kind |-> "ndarray", shape |-> <<1, Len(vec)>>, data |-> vec,
     index |-> <<>>, columns |-> <<>>]

\* A bytes object.
PyBytes(vec) ==
    [kind |-> "bytes", shape |-> <<Len(vec)>>, data |-> vec,
     index |-> <<>>, columns |-> <<>>]

\* A DataFrame: its index (an unnamed default RangeIndex, or a column
\* promoted by set_index) and its data column names.
DataFrame(index, columns) ==
    [kind |-> "DataFrame", shape |-> <<>>, data |-> <<>>,
     index |-> index, columns |-> columns]

(***************************************************************************)
(* The native library: files, the writer, the reader, the merger.          *)
(***************************************************************************)
Paths == {"out.parquet"}

NoFile == [exists |-> FALSE, column_names |-> <<>>, columns |-> <<>>,
           user_data |-> NoPandas]

\* The file a source path names: none when nothing was written there.
FileAt(path) == IF path \in DOMAIN fs THEN fs[path] ELSE NoFile

\* The footer of a file of one row group, as bytes.
Footer(tv) == <<Len(tv)>>

\* cudf::write_parquet: the file holds the view's columns under the names of
\* the table metadata, with the user data; the footer blob is produced when
\* asked for.
parquet_writer(args) ==
    [file |-> [exists |-> TRUE, column_names |-> args.column_names,
               columns |-> args.tv, user_data |-> args.user_data],
     out_metadata |-> IF args.return_filemetadata THEN Footer(args.tv) ELSE <<>>]

(***************************************************************************)
(* write_parquet.                                                          *)
(***************************************************************************)
IndexPolicies == {"True", "False", None}

Compressions == {None, "snappy", "gzip"}

Statistics ==
    { <<"R", "O", "W", "G", "R", "O", "U", "P">>, <<"p", "a", "g", "e">>,
      <<"N", "o", "n", "e">>, <<"C", "O", "L", "U", "M", "N">> }

MetadataFilePaths == {None, "_metadata"}

LowerCase == <<"a", "c", "e", "g", "l", "m", "n", "o", "p", "r", "u", "w">>

UpperCase == <<"A", "C", "E", "G", "L", "M", "N", "O", "P", "R", "U", "W">>

\* str.upper
upper(s) ==
    [k \in DOMAIN s |->
        IF \E j \in DOMAIN LowerCase : LowerCase[j] = s[k]
        THEN UpperCase[CHOOSE j \in DOMAIN LowerCase : LowerCase[j] = s[k]]
        ELSE s[k]]

\* str.encode raises TypeError on None; the names pushed for the index.
IndexColumnNames(t, index) ==
    IF index # "False"
    THEN IF IsMultiIndex(t)
         THEN index_names(t)
         ELSE IF t.index.levels[1].name # None
              THEN <<t.index.levels[1].name>>
              ELSE <<>>
    ELSE <<>>

\* The multi-index loop encodes every level name: a None name raises.
EncodeRaises(t, index) ==
    index # "False" /\ IsMultiIndex(t) /\ None \in Range(index_names(t))

\* column_names: the index names pushed first, then table._column_names.
ColumnNames(t, index) == IndexColumnNames(t, index) \o column_names_of(t)

\* Faulty variant of TableView: an unnamed single index does not fall back
\* to the data view.
TableViewNoFallback(t, index) ==
    IF index # "False" THEN view(t) ELSE data_view(t)

\* tv: the view handed to the encoder.
TableView(t, index) ==
    IF index # "False"
    THEN IF IsMultiIndex(t)
         THEN view(t)
         ELSE IF t.index.levels[1].name # None
              THEN view(t)
              ELSE data_view(t)
    ELSE data_view(t)

\* Faulty variant of CompressionType: an unknown value means no compression.
CompressionTypeLenient(compression) ==
    IF compression = "snappy" THEN "SNAPPY" ELSE "NONE"

CompressionType(compression) ==
    IF compression = None THEN "NONE"
    ELSE IF compression = "snappy" THEN "SNAPPY"
    ELSE "raise"

StatisticsFreq(statistics) ==
    LET u == upper(statistics) IN
    IF u = <<"N", "O", "N", "E">> THEN "STATISTICS_NONE"
    ELSE IF u = <<"R", "O", "W", "G", "R", "O", "U", "P">> THEN "STATISTICS_ROWGROUP"
    ELSE IF u = <<"P", "A", "G", "E">> THEN "STATISTICS_PAGE"
    ELSE "raise"

\* args.return_filemetadata
ReturnFilemetadata(metadata_file_path) == metadata_file_path # None

\* Faulty variant of WriteReturn: the test of the footer path is inverted.
WriteReturnInverted(metadata_file_path, out_metadata_c) ==
    IF metadata_file_path = None
    THEN BufferArrayFromVector(out_metadata_c)
    ELSE PyNone

\* The value write_parquet returns after the writer has run.
WriteReturn(metadata_file_path, out_metadata_c) ==
    IF metadata_file_path # None
    THEN BufferArrayFromVector(out_metadata_c)
    ELSE PyNone

NoArgs == [tv |-> <<>>, column_names |-> <<>>, user_data |-> NoPandas,
           comp_type |-> "", stat_freq |-> "", return_filemetadata |-> FALSE]

\* Everything write_parquet does before the writer runs: the outcome
\* ("ok" or the exception raised) and the arguments of the writer.
WritePrepare(t, index, compression, statistics, metadata_file_path) ==
    LET pandas == generate_pandas_metadata(t, index)
        outcome ==
            IF EncodeRaises(t, index) THEN "TypeError"
            ELSE IF pandas.raised THEN "ValueError"
            ELSE IF CompressionType(compression) = "raise" THEN "ValueError"
            ELSE IF StatisticsFreq(statistics) = "raise" THEN "ValueError"
            ELSE "ok"
    IN  [outcome |-> outcome,
         lists |-> PandasLists(t, index),
         args |-> IF outcome # "ok" THEN NoArgs
                  ELSE [tv |-> TableView(t, index),
                        column_names |-> ColumnNames(t, index),
                        user_data |-> pandas.json_str,
                        comp_type |-> CompressionType(compression),
                        stat_freq |-> StatisticsFreq(statistics),
                        return_filemetadata |->
                            ReturnFilemetadata(metadata_file_path)]]

WriteParquet(index, compression, statistics, metadata_file_path, path) ==
    \E prep \in {WritePrepare(table, index, compression, statistics,
                              metadata_file_path)} :
    \E out \in {parquet_writer(prep.args)} :
        /\ last' = [op |-> "write_parquet",
                    args |-> [index |-> index, compression |-> compression,
                              statistics |-> statistics,
                              metadata_file_path |-> metadata_file_path,
                              path |-> path],
                    outcome |-> prep.outcome,
                    invoked |-> prep.outcome = "ok",
                    native |-> prep.args,
                    lists |-> prep.lists,
                    ret |-> IF prep.outcome = "ok"
                            THEN WriteReturn(metadata_file_path, out.out_metadata)
                            ELSE PyNone]
        /\ fs' = IF prep.outcome = "ok"
                 THEN [fs EXCEPT ![path] = out.file]
                 ELSE fs
        /\ UNCHANGED <<table, filemetadata_list, gil, pc, call, frame, result>>

(***************************************************************************)
(* read_parquet.                                                           *)
(***************************************************************************)
\* columns=None, or a list of column names.
AllColumns == [given |-> FALSE, names |-> <<>>]

ColumnSelections ==
    {AllColumns} \cup
    { [given |-> TRUE, names |-> <<n>>] :
        n \in {ColName[k] : k \in 1..MaxCols} \cup
              {LevelName[k] : k \in 1..MaxLevels} }

\* cudf::read_parquet: the decoded columns keep their on-disk names, all of
\* them or the selected ones in the order asked for; the "pandas" user data
\* is surfaced unmodified.
parquet_reader(file, columns) ==
    IF ~file.exists
    THEN [outcome |-> "IOError", column_names |-> <<>>, user_data |-> NoPandas]
    ELSE IF ~columns.given
    THEN [outcome |-> "ok", column_names |-> file.column_names,
          user_data |-> file.user_data]
    ELSE IF Range(columns.names) \subseteq Range(file.column_names)
    THEN [outcome |-> "ok", column_names |-> columns.names,
          user_data |-> file.user_data]
    ELSE [outcome |-> "UnknownColumn", column_names |-> <<>>,
          user_data |-> NoPandas]

GeneratedIndexNames == {"__index_level_0__"}

\* pa.pandas_compat._backwards_compatible_index_name
BackwardsCompatibleIndexName(raw_name, logical_name) ==
    IF raw_name = logical_name /\ raw_name \in GeneratedIndexNames
    THEN None
    ELSE logical_name

\* The index of a DataFrame built from a table: a default RangeIndex.
DefaultIndex(name) == [kind |-> "RangeIndex", name |-> name]

\* The index after df.set_index(column).
ColumnIndex(name) == [kind |-> "Column", name |-> name]

\* index_col: '' unless the "pandas" JSON has a non-empty index_columns.
IndexCol(json_str) ==
    IF json_str.present /\ Len(json_str.index_columns) > 0
    THEN json_str.index_columns[1]
    ELSE NameRef("")

\* index_col is not '' and isinstance(index_col, str)
IsIndexName(index_col) == index_col.kind = "name" /\ index_col.name # ""

\* The DataFrame read_parquet builds from what the reader decoded.
ReadFinish(decoded, use_pandas_metadata) ==
    LET column_names == decoded.column_names
        index_col == IndexCol(decoded.user_data)
    IN  IF IsIndexName(index_col)
        THEN IF index_col.name \in Range(column_names)
             THEN DataFrame(
                      ColumnIndex(BackwardsCompatibleIndexName(index_col.name,
                                                               index_col.name)),
                      SelectSeq(column_names, LAMBDA n : n # index_col.name))
             ELSE IF use_pandas_metadata
                  THEN DataFrame(DefaultIndex(index_col.name), column_names)
                  ELSE DataFrame(DefaultIndex(None), column_names)
        ELSE DataFrame(DefaultIndex(None), column_names)

ReadParquet(path, columns, use_pandas_metadata) ==
    \E decoded \in {parquet_reader(FileAt(path), columns)} :
        /\ last' = [op |-> "read_parquet",
                    args |-> [path |-> path, columns |-> columns,
                              use_pandas_metadata |-> use_pandas_metadata],
                    outcome |-> decoded.outcome,
                    invoked |-> TRUE,
                    native |-> decoded,
                    lists |-> <<>>,
                    ret |-> IF decoded.outcome = "ok"
                            THEN ReadFinish(decoded, use_pandas_metadata)
                            ELSE PyNone]
        /\ UNCHANGED <<table, filemetadata_list, fs, gil, pc, call, frame, result>>

(***************************************************************************)
(* merge_filemetadata.                                                     *)
(***************************************************************************)
ByteValues == {0, 255}

\* The blobs a caller holds: bytes objects, and the arrays write_parquet
\* returns.
BlobObjects ==
    LET contents == SeqsUpTo(ByteValues, MaxBlobLen)
    IN  {PyBytes(c) : c \in contents} \cup
        {BufferArrayFromVector(c) : c \in contents}

\* blob_c = blob_py: the conversion of a Python object to vector[uint8_t]
\* iterates the object and converts every item to uint8_t.  The items of a
\* bytes object are its bytes; the items of a two-dimensional array are its
\* rows, and a row converts to an integer only if it holds one element.
vector_from_py(blob_py) ==
    IF blob_py.kind = "bytes"
    THEN [raised |-> FALSE, vec |-> blob_py.data]
    ELSE IF blob_py.shape[2] = 1
         THEN [raised |-> FALSE, vec |-> <<blob_py.data[1]>>]
         ELSE [raised |-> TRUE, vec |-> <<>>]

\* The loop filling list_c, one push_back per blob.
RECURSIVE BlobsLoop(_, _, _)
BlobsLoop(list, k, acc) ==
    IF k > Len(list) \/ acc.raised THEN acc
    ELSE LET blob_c == vector_from_py(list[k])
         IN  IF blob_c.raised
             THEN [acc EXCEPT !.raised = TRUE]
             ELSE BlobsLoop(list, k + 1,
                            [acc EXCEPT !.list_c = Append(@, blob_c.vec)])

\* Faulty variant of MergePrepare: the blobs are pushed at the front.
MergePrepareReversed(list) ==
    LET loop == BlobsLoop(list, 1, [raised |-> FALSE, list_c |-> <<>>])
    IN  [outcome |-> IF loop.raised THEN "TypeError" ELSE "ok",
         list_c |-> IF loop.raised THEN <<>>
                    ELSE [k \in DOMAIN loop.list_c |->
                            loop.list_c[Len(loop.list_c) + 1 - k]]]

MergePrepare(list) ==
    LET loop == BlobsLoop(list, 1, [raised |-> FALSE, list_c |-> <<>>])
    IN  [outcome |-> IF loop.raised THEN "TypeError" ELSE "ok",
         list_c |-> IF loop.raised THEN <<>> ELSE loop.list_c]

\* cudf::merge_rowgroup_metadata: the row groups of the blobs, concatenated
\* in list order; an empty list is an error.
parquet_merge_metadata(list_c) ==
    IF list_c = <<>>
    THEN [outcome |-> "RuntimeError", output |-> <<>>]
    ELSE [outcome |-> "ok", output |-> FlattenSeqs(list_c)]

MergeFilemetadata ==
    \E prep \in {MergePrepare(filemetadata_list)} :
    \E out \in {parquet_merge_metadata(prep.list_c)} :
        /\ last' = [op |-> "merge_filemetadata",
                    args |-> [filemetadata_list |-> filemetadata_list],
                    outcome |-> IF prep.outcome = "ok" THEN out.outcome
                                ELSE prep.outcome,
                    invoked |-> prep.outcome = "ok",
                    native |-> [list_c |-> prep.list_c],
                    lists |-> <<>>,
                    ret |-> IF prep.outcome = "ok" /\ out.outcome = "ok"
                            THEN BufferArrayFromVector(out.output)
                            ELSE PyNone]
        /\ UNCHANGED <<table, filemetadata_list, fs, gil, pc, call, frame,
                       result>>

(***************************************************************************)
(* The sequential specification: one caller, holding one table, writes it  *)
(* and reads files back.                                                   *)
(***************************************************************************)
NoCall == [op |-> "none", args |-> <<>>, outcome |-> "ok", invoked |-> FALSE,
           native |-> <<>>, lists |-> <<>>, ret |-> PyNone]

Init ==
    /\ table \in Tables
    /\ fs = [p \in Paths |-> NoFile]
    /\ filemetadata_list = <<>>
    /\ last = NoCall
    /\ gil = 0
    /\ pc = <<>>
    /\ call = <<>>
    /\ frame = <<>>
    /\ result = <<>>

Write ==
    \E index \in IndexPolicies, compression \in Compressions,
       statistics \in Statistics, metadata_file_path \in MetadataFilePaths,
       path \in Paths :
        WriteParquet(index, compression, statistics, metadata_file_path, path)

Read ==
    \E path \in Paths, columns \in ColumnSelections,
       use_pandas_metadata \in BOOLEAN :
        ReadParquet(path, columns, use_pandas_metadata)

Next == Write \/ Read

Spec == Init /\ [][Next]_vars

(***************************************************************************)
(* Properties of write_parquet.                                            *)
(***************************************************************************)
Wrote == last.op = "write_parquet" /\ last.invoked

HasCategoryColumn(t) == \E k \in DOMAIN t.data : t.data[k].dtype = "CATEGORY"

ViewHasIndex(tv) == \E k \in DOMAIN tv : tv[k].part = "index"

\* C1: whenever write_parquet reaches the encoder, metadata.column_names has
\* one entry per column of the view handed to it, each entry is the name of
\* the view's column at that position, and the list is the index names
\* (exactly when the view holds the index columns) followed by the data
\* column names in table order.
C1_NamesMatchView ==
    Wrote =>
        LET names == last.native.column_names
            tv == last.native.tv
        IN  /\ Len(names) = Len(tv)
            /\ \A k \in DOMAIN tv : names[k] = PhysicalName(table, tv[k])
            /\ names = (IF ViewHasIndex(tv) THEN index_names(table) ELSE <<>>)
                          \o column_names_of(table)

C1_Witness ==
    /\ Wrote
    /\ IsMultiIndex(table)
    /\ last.args.index = None
    /\ Len(table.data) = 2
    /\ ViewHasIndex(last.native.tv)
    /\ last.native.column_names =
           <<LevelName[1], LevelName[2], ColName[1], ColName[2]>>

\* C3: a write_parquet call on a table with a CATEGORY data column raises,
\* whatever the index policy, compression and statistics, without invoking
\* the native writer; it returns nothing and the sink is left as it was.
C3_CategoryRaisesBeforeWrite ==
    [][ (last'.op = "write_parquet" /\ HasCategoryColumn(table'))
            => /\ last'.outcome \in {"ValueError", "TypeError"}
               /\ ~last'.invoked
               /\ last'.ret = PyNone
               /\ fs' = fs ]_vars

C3_Witness ==
    /\ last.op = "write_parquet"
    /\ HasCategoryColumn(table)
    /\ table.data[1].dtype = "INT32"
    /\ last.args.index = "False"
    /\ last.args.compression = "snappy"
    /\ last.outcome = "ValueError"
    /\ ~last.invoked

\* s is the str u up to letter case.
EqualsIgnoringCase(s, u) ==
    /\ Len(s) = Len(u)
    /\ \A k \in DOMAIN s :
          \/ s[k] = u[k]
          \/ \E j \in DOMAIN LowerCase :
                {s[k], u[k]} = {LowerCase[j], UpperCase[j]}

SupportedStatistics(s) ==
    \/ EqualsIgnoringCase(s, <<"N", "O", "N", "E">>)
    \/ EqualsIgnoringCase(s, <<"R", "O", "W", "G", "R", "O", "U", "P">>)
    \/ EqualsIgnoringCase(s, <<"P", "A", "G", "E">>)

UnsupportedOption(args) ==
    \/ args.compression \notin {None, "snappy"}
    \/ ~SupportedStatistics(args.statistics)

\* C4: a write_parquet call with a compression outside {None, "snappy"} or
\* a statistics value that is not NONE, ROWGROUP or PAGE in some letter case
\* raises without invoking the native writer, and the sink is left as it was.
C4_UnsupportedOptionRaises ==
    [][ (last'.op = "write_parquet" /\ UnsupportedOption(last'.args))
            => /\ last'.outcome \in {"ValueError", "TypeError"}
               /\ ~last'.invoked
               /\ last'.ret = PyNone
               /\ fs' = fs ]_vars

C4_Witness ==
    /\ last.op = "write_parquet"
    /\ ~HasCategoryColumn(table)
    /\ last.args.compression = None
    /\ last.args.statistics = <<"C", "O", "L", "U", "M", "N">>
    /\ last.outcome = "ValueError"
    /\ ~last.invoked
    /\ fs[last.args.path].exists

\* C5: a successful write_parquet returns a metadata blob exactly when a
\* footer path was given: then the writer was asked for the file metadata and
\* the returned array holds the bytes it produced; otherwise the writer was
\* not asked and the call returns None.
C5_BlobIffFooterPath ==
    (last.op = "write_parquet" /\ last.outcome = "ok") =>
        IF last.args.metadata_file_path # None
        THEN /\ last.native.return_filemetadata
             /\ last.ret.kind = "ndarray"
             /\ last.ret.data = parquet_writer(last.native).out_metadata
             /\ Len(last.ret.data) > 0
        ELSE /\ ~last.native.return_filemetadata
             /\ last.ret = PyNone

C5_Witness ==
    /\ last.op = "write_parquet"
    /\ last.outcome = "ok"
    /\ last.args.metadata_file_path = "_metadata"
    /\ last.ret.kind = "ndarray"
    /\ last.ret.data = <<Len(last.native.tv)>>

\* C9: with index=False nothing of the index is persisted, whatever index
\* the table has: the pandas descriptor is built with no index levels and no
\* index descriptors, and the encoder gets the data columns only, under the
\* data column names only.
C9_IndexFalseOmitsIndex ==
    (last.op = "write_parquet" /\ last.args.index = "False") =>
        /\ last.lists.index_levels = <<>>
        /\ last.lists.index_descriptors = <<>>
        /\ last.invoked =>
              /\ Len(last.native.tv) = Len(table.data)
              /\ \A k \in DOMAIN last.native.tv :
                    last.native.tv[k] = [part |-> "data", pos |-> k]
              /\ last.native.column_names = column_names_of(table)
              /\ last.native.user_data.index_columns = <<>>

C9_Witness ==
    /\ Wrote
    /\ last.args.index = "False"
    /\ IsMultiIndex(table)
    /\ None \notin Range(index_names(table))
    /\ last.native.column_names = column_names_of(table)

\* C10: whenever write_parquet reaches the encoder, an index level is
\* written as a physical column (it is in the view and its name is in
\* metadata.column_names) exactly when the pandas descriptor records it as
\* a plain column-name reference, and a level recorded as a range is not
\* written as a physical column.
C10_DescriptorAgreesWithColumns ==
    Wrote =>
        \A k \in DOMAIN table.index.levels :
            LET name == table.index.levels[k].name
                physical ==
                    /\ [part |-> "index", pos |-> k] \in Range(last.native.tv)
                    /\ name \in Range(last.native.column_names)
                descrs == Range(last.lists.index_descriptors)
            IN  /\ physical <=> NameRef(name) \in descrs
                /\ (\E d \in descrs : d.kind = "range" /\ d.name = name)
                       => ~physical

(***************************************************************************)
(* Properties of read_parquet.                                             *)
(***************************************************************************)
ReadBack ==
    /\ last.op = "read_parquet"
    /\ last.outcome = "ok"

\* C2: reading back, with the default options, a file write_parquet wrote
\* with the index embedded gives the table's data column names in order and
\* the table's index: every index level is an index again and none is a
\* data column.
C2_RoundTrip ==
    (/\ ReadBack
     /\ last.args.columns = AllColumns
     /\ last.args.use_pandas_metadata
     /\ ViewHasIndex(fs[last.args.path].columns))
        => /\ last.ret.columns = column_names_of(table)
           /\ last.ret.index.kind = "Column"
           /\ <<last.ret.index.name>> = index_names(table)

\* C6: when the "pandas" metadata has a non-empty index_columns, its first
\* entry is the index: if it names a decoded column, that column leaves the
\* data columns and becomes the index; otherwise (a range descriptor
\* included) the default index is kept and carries the descriptor's name
\* exactly when use_pandas_metadata is set.
C6_FirstEntryIsIndex ==
    (ReadBack /\ Len(last.native.user_data.index_columns) > 0) =>
        LET entry == last.native.user_data.index_columns[1]
            decoded == last.native.column_names
            df == last.ret
        IN  IF entry.kind = "name" /\ entry.name \in Range(decoded)
            THEN /\ df.index = ColumnIndex(entry.name)
                 /\ df.columns = SelectSeq(decoded, LAMBDA n : n # entry.name)
            ELSE /\ df.index.kind = "RangeIndex"
                 /\ df.columns = decoded
                 /\ df.index.name =
                        IF last.args.use_pandas_metadata THEN entry.name ELSE None

(***************************************************************************)
(* The merge specification: a caller holding a list of metadata blobs      *)
(* merges them.                                                            *)
(***************************************************************************)
InitMerge ==
    /\ table = [data |-> <<[name |-> ColName[1], dtype |-> "INT32"]>>,
                index |-> CHOOSE i \in RangeIndexes : i.levels[1].name = None]
    /\ filemetadata_list \in SeqsUpTo(BlobObjects, MaxBlobs)
    /\ fs = [p \in Paths |-> NoFile]
    /\ last = NoCall
    /\ gil = 0
    /\ pc = <<>>
    /\ call = <<>>
    /\ frame = <<>>
    /\ result = <<>>

NextMerge == MergeFilemetadata

SpecMerge == InitMerge /\ [][NextMerge]_vars

NThreads == 2

Threads == 1..NThreads

\* Faulty variant of FrameOf: the locals are module globals, one frame for
\* every call.
SharedFrame(t) == 1

\* The frame holding the cdef locals of the call thread t is running.
FrameOf(t) == t

IdleCall ==
    [op |-> "none", index |-> None, compression |-> None,
     statistics |-> <<>>, metadata_file_path |-> None, path |-> "",
     columns |-> AllColumns, use_pandas_metadata |-> TRUE,
     filemetadata_list |-> <<>>, source |-> NoFile]

ConcCalls ==
    { [IdleCall EXCEPT !.op = "write_parquet", !.index = i,
                       !.statistics = <<"p", "a", "g", "e">>,
                       !.metadata_file_path = m, !.path = p] :
        i \in {"True", "False"}, m \in MetadataFilePaths, p \in Paths }
    \cup
    { [IdleCall EXCEPT !.op = "read_parquet", !.path = p,
                       !.use_pandas_metadata = u] :
        p \in Paths, u \in BOOLEAN }
    \cup
    { [IdleCall EXCEPT !.op = "merge_filemetadata", !.filemetadata_list = l] :
        l \in { <<PyBytes(<<0>>), PyBytes(<<255>>)>>,
                 <<BufferArrayFromVector(<<0, 255>>)>> } }

ConcTables ==
    { t \in Tables : Len(t.data) = 1 /\ t.index.kind = "GenericIndex"
                     /\ t.index.levels[1].dtype = "INT32" }

NoResult == [outcome |-> "pending", ret |-> PyNone]

\* The cdef locals of a call, default-constructed.
EmptyFrame ==
    [args |-> NoArgs,
     read_args |-> [path |-> "", columns |-> AllColumns],
     list_c |-> <<>>,
     out_metadata_c |-> <<>>,
     c_out_table |-> [outcome |-> "ok", column_names |-> <<>>,
                      user_data |-> NoPandas],
     output_c |-> [outcome |-> "ok", output |-> <<>>]]

InitConc ==
    /\ table \in ConcTables
    /\ filemetadata_list = <<>>
    /\ fs = [p \in Paths |-> NoFile]
    /\ last = NoCall
    /\ gil = 0
    /\ pc = [t \in Threads |-> "idle"]
    /\ call = [t \in Threads |-> IdleCall]
    /\ frame = [t \in Threads |-> EmptyFrame]
    /\ result = [t \in Threads |-> NoResult]

\* A thread holding the interpreter lock enters one of the functions.
Call(t) ==
    /\ pc[t] = "idle"
    /\ gil = 0
    /\ \E c \in ConcCalls : call' = [call EXCEPT ![t] = c]
    /\ gil' = t
    /\ pc' = [pc EXCEPT ![t] = "marshal"]
    /\ result' = [result EXCEPT ![t] = NoResult]
    /\ frame' = [frame EXCEPT ![FrameOf(t)] = EmptyFrame]
    /\ UNCHANGED <<table, filemetadata_list, fs, last>>

\* The code before the first nogil block: it raises, or fills the locals and
\* releases the lock.
Marshal(t) ==
    /\ pc[t] = "marshal"
    /\ gil = t
    /\ LET c == call[t] IN
       CASE c.op = "write_parquet" ->
              \E prep \in {WritePrepare(table, c.index, c.compression,
                                        c.statistics, c.metadata_file_path)} :
                 IF prep.outcome # "ok"
                 THEN /\ result' = [result EXCEPT
                                      ![t] = [outcome |-> prep.outcome,
                                              ret |-> PyNone]]
                      /\ pc' = [pc EXCEPT ![t] = "idle"]
                      /\ frame' = frame
                 ELSE /\ frame' = [frame EXCEPT
                                     ![FrameOf(t)].args =
                                         [prep.args EXCEPT
                                            !.return_filemetadata = FALSE]]
                      /\ pc' = [pc EXCEPT ![t] = "nogil_args"]
                      /\ result' = result
         [] c.op = "read_parquet" ->
              /\ frame' = [frame EXCEPT
                             ![FrameOf(t)].read_args =
                                 [path |-> c.path, columns |-> c.columns]]
              /\ pc' = [pc EXCEPT ![t] = "nogil"]
              /\ result' = result
         [] c.op = "merge_filemetadata" ->
              \E prep \in {MergePrepare(c.filemetadata_list)} :
                 IF prep.outcome # "ok"
                 THEN /\ result' = [result EXCEPT
                                      ![t] = [outcome |-> prep.outcome,
                                              ret |-> PyNone]]
                      /\ pc' = [pc EXCEPT ![t] = "idle"]
                      /\ frame' = frame
                 ELSE /\ frame' = [frame EXCEPT
                                     ![FrameOf(t)].list_c = prep.list_c]
                      /\ pc' = [pc EXCEPT ![t] = "nogil"]
                      /\ result' = result
    /\ gil' = 0
    /\ UNCHANGED <<table, filemetadata_list, fs, last, call>>

\* write_parquet's first nogil block: args = write_parquet_args(...).
NativeArgs(t) ==
    /\ pc[t] = "nogil_args"
    /\ pc' = [pc EXCEPT ![t] = "reacquire_args"]
    /\ UNCHANGED <<table, filemetadata_list, fs, last, gil, call, frame,
                   result>>

\* The end of a nogil block: the thread waits for the interpreter lock.
Reacquire(t) ==
    /\ pc[t] \in {"reacquire_args", "reacquire"}
    /\ gil = 0
    /\ gil' = t
    /\ pc' = [pc EXCEPT ![t] = IF pc[t] = "reacquire_args"
                               THEN "set_footer" ELSE "wrap"]
    /\ UNCHANGED <<table, filemetadata_list, fs, last, call, frame, result>>

\* write_parquet between its two nogil blocks.
SetFooter(t) ==
    /\ pc[t] = "set_footer"
    /\ gil = t
    /\ frame' = [frame EXCEPT
                   ![FrameOf(t)].args.return_filemetadata =
                       ReturnFilemetadata(call[t].metadata_file_path)]
    /\ gil' = 0
    /\ pc' = [pc EXCEPT ![t] = "nogil"]
    /\ UNCHANGED <<table, filemetadata_list, fs, last, call, result>>

\* The native call of a function, run without the interpreter lock.
Native(t) ==
    /\ pc[t] = "nogil"
    /\ LET c == call[t]
           locals == frame[FrameOf(t)]
       IN
       CASE c.op = "write_parquet" ->
              \E out \in {parquet_writer(locals.args)} :
                 /\ fs' = [fs EXCEPT ![c.path] = out.file]
                 /\ frame' = [frame EXCEPT
                                ![FrameOf(t)].out_metadata_c = out.out_metadata]
                 /\ call' = call
         [] c.op = "read_parquet" ->
              /\ frame' = [frame EXCEPT
                             ![FrameOf(t)].c_out_table =
                                 parquet_reader(FileAt(locals.read_args.path),
                                                locals.read_args.columns)]
              /\ call' = [call EXCEPT ![t].source = FileAt(c.path)]
              /\ fs' = fs
         [] c.op = "merge_filemetadata" ->
              /\ frame' = [frame EXCEPT
                             ![FrameOf(t)].output_c =
                                 parquet_merge_metadata(locals.list_c)]
              /\ call' = call
              /\ fs' = fs
    /\ pc' = [pc EXCEPT ![t] = "reacquire"]
    /\ UNCHANGED <<table, filemetadata_list, last, gil, result>>

\* The code after the last nogil block: the result is built from the locals
\* and returned to the caller.
Wrap(t) ==
    /\ pc[t] = "wrap"
    /\ gil = t
    /\ LET c == call[t]
           locals == frame[FrameOf(t)]
       IN  result' =
             [result EXCEPT ![t] =
                CASE c.op = "write_parquet" ->
                       [outcome |-> "ok",
                        ret |-> WriteReturn(c.metadata_file_path,
                                            locals.out_metadata_c)]
                  [] c.op = "read_parquet" ->
                       IF locals.c_out_table.outcome # "ok"
                       THEN [outcome |-> locals.c_out_table.outcome,
                             ret |-> PyNone]
                       ELSE [outcome |-> "ok",
                             ret |-> ReadFinish(locals.c_out_table,
                                                c.use_pandas_metadata)]
                  [] c.op = "merge_filemetadata" ->
                       IF locals.output_c.outcome # "ok"
                       THEN [outcome |-> locals.output_c.outcome,
                             ret |-> PyNone]
                       ELSE [outcome |-> "ok",
                             ret |-> BufferArrayFromVector(
                                         locals.output_c.output)]]
    /\ gil' = 0
    /\ pc' = [pc EXCEPT ![t] = "idle"]
    /\ UNCHANGED <<table, filemetadata_list, fs, last, call, frame>>

NextConc ==
    \E t \in Threads :
        \/ Call(t)
        \/ Marshal(t)
        \/ NativeArgs(t)
        \/ Reacquire(t)
        \/ SetFooter(t)
        \/ Native(t)
        \/ Wrap(t)

SpecConc == InitConc /\ [][NextConc]_vars

\* The result a call gives when it runs alone: the function applied in one
\* piece to the call's arguments (for read_parquet, to the file its reader
\* decoded).
RunAlone(c) ==
    CASE c.op = "write_parquet" ->
           LET prep == WritePrepare(table, c.index, c.compression,
                                    c.statistics, c.metadata_file_path)
           IN  IF prep.outcome # "ok"
               THEN [outcome |-> prep.outcome, ret |-> PyNone]
               ELSE [outcome |-> "ok",
                     ret |-> WriteReturn(c.metadata_file_path,
                                 parquet_writer(prep.args).out_metadata)]
      [] c.op = "read_parquet" ->
           LET decoded == parquet_reader(c.source, c.columns)
           IN  IF decoded.outcome # "ok"
               THEN [outcome |-> decoded.outcome, ret |-> PyNone]
               ELSE [outcome |-> "ok",
                     ret |-> ReadFinish(decoded, c.use_pandas_metadata)]
      [] c.op = "merge_filemetadata" ->
           LET prep == MergePrepare(c.filemetadata_list)
               out == parquet_merge_metadata(prep.list_c)
           IN  IF prep.outcome # "ok"
               THEN [outcome |-> prep.outcome, ret |-> PyNone]
               ELSE IF out.outcome # "ok"
               THEN [outcome |-> out.outcome, ret |-> PyNone]
               ELSE [outcome |-> "ok",
                     ret |-> BufferArrayFromVector(out.output)]
      [] OTHER -> NoResult

====
